---- MODULE Spec2Model ----
(***************************************************************************)
(* A model of the UWS job-lifecycle client of uwsclient:                   *)
(*   - uwsclient.py : the context-manager client (one aiohttp session      *)
(*     per context) with wait_for_job_completion;                          *)
(*   - uws.py       : the per-operation client (one session per call);     *)
(*   - client.py    : SODAClient and the async_cutout orchestration.       *)
(* The server is the environment: every reply is drawn from a small set    *)
(* when the request is made, and recorded in the history variable served.  *)
(* A caller runs one operation per behaviour: a wait, a cutout or a        *)
(* create_job.                                                             *)
(***************************************************************************)
EXTENDS Integers, Sequences, FiniteSets, TLC

\* ------------------------------------------------------------- bounds
\* status fetches wait_for_job_completion may make before the model stops it
MaxPolls == 3
\* status fetches async_cutout's loop may make before the model stops it
MaxCutoutPolls == 2
\* result elements in a results block
MaxResults == 2
\* the caller's timeout ranges over 0..MaxTimeout (seconds)
MaxTimeout == 2
\* the caller's poll_interval ranges over 0..MaxInterval (seconds)
MaxInterval == 1
\* seconds a request, or a sleep beyond its interval, may take
MaxLatency == 1
\* characters in a Location header
MaxLoc == 3
\* status fetches of one of the concurrent wait loops
MaxConcPolls == 2
\* the last instant of the clock the concurrent wait loops run on
MaxNow == 2

\* ---------------------------------------------------------- constants
\* client.py: await asyncio.sleep(5)
CutoutPollInterval == 5

\* Python's None
NoneVal == "<None>"

\* models.py: the members of the UWSPhase enumeration
EnumPhases ==
    {"PENDING", "QUEUED", "EXECUTING", "COMPLETED", "ERROR", "ABORTED",
     "UNKNOWN", "HELD"}

\* the texts a server may put in <uws:phase>: the enumeration's, two UWS
\* phases the enumeration lacks, and a string of a protocol extension
PhaseTexts == EnumPhases \cup {"SUSPENDED", "ARCHIVED", "BOGUS"}

\* the characters of a Location header
Chars == {"/", "a", "b"}

RECURSIVE SeqsUpTo(_, _)
SeqsUpTo(S, n) ==
    IF n = 0 THEN {<<>>}
    ELSE LET shorter == SeqsUpTo(S, n - 1)
         IN  shorter \cup {Append(s, c) : s \in shorter, c \in S}

Locations == SeqsUpTo(Chars, MaxLoc)

Bodies == {"bad request", "not found"}

\* str(status) of an f-string
StatusStr(s) ==
    CASE s = 200 -> "200"
      [] s = 302 -> "302"
      [] s = 303 -> "303"
      [] s = 404 -> "404"
      [] s = 500 -> "500"

VARIABLES
    now,        \* the event loop's clock, in seconds
    events,     \* the HTTP requests sent and the sleeps taken, in order
    served,     \* the replies the server has given, in order
    session,    \* uwsclient.py UWSClient.session: "none", "open", "closed"
    w_pc,       \* wait_for_job_completion: idle, poll, sleep, returned, raised
    w_job,      \* its job_id
    w_timeout,  \* its timeout
    w_interval, \* its poll_interval
    w_start,    \* its start_time
    w_status,   \* the status it returned
    w_err,      \* the exception it raised
    cr_pc,      \* create_job: idle, returned, raised
    cr_variant, \* which create_job ran: "uws" (uws.py) or "ctx" (uwsclient.py)
    cr_ret,     \* the job id it returned
    cr_err,     \* the exception it raised
    c_pc,       \* async_cutout: idle, poll, results, download, sleep, done, raised
    c_job,      \* its job_id
    c_results,  \* the list get_job_results returned
    c_doc,      \* the results block of the document it was answered with
    c_i,        \* the index of its download loop
    c_err,      \* the exception it raised
    attempts,   \* the calls of download_result it made, in order
    written,    \* the files those calls opened for writing, in order
    dirs_made,  \* whether the output directory has been created
    open_sessions, \* the aiohttp sessions that are open
    k_pc,       \* a single call of the client: idle, returned, raised
    k_op,       \* the method called
    k_variant,  \* its client: "uws" (uws.py) or "ctx" (uwsclient.py)
    k_doc,      \* the results block of the document the server sent it
    k_status,   \* the status get_job_status returned
    k_results,  \* the list get_job_results returned
    k_before,   \* the file at output_path before download_result
    k_file,     \* the file at output_path after download_result
    k_dirs,     \* whether download_result created the parent directories
    k_err,      \* the exception the call raised
    waits       \* the wait loops a caller runs concurrently, by waiter

vars ==
    <<now, events, served, session, w_pc, w_job, w_timeout, w_interval,
      w_start, w_status, w_err, cr_pc, cr_variant, cr_ret, cr_err,
      c_pc, c_job, c_results, c_doc, c_i, c_err, attempts, written, dirs_made,
      open_sessions, k_pc, k_op, k_variant, k_doc, k_status, k_results,
      k_before, k_file, k_dirs, k_err, waits>>

waitVars == <<w_pc, w_job, w_timeout, w_interval, w_start, w_status, w_err>>
createVars == <<cr_pc, cr_variant, cr_ret, cr_err>>
cutoutVars ==
    <<c_pc, c_job, c_results, c_doc, c_i, c_err, attempts, written,
      dirs_made>>

callVars ==
    <<k_pc, k_op, k_variant, k_doc, k_status, k_results, k_before, k_file,
      k_dirs, k_err>>

\* the callers of wait loops that run concurrently
Waiters == {1, 2}

\* no operation has been called yet
Idle ==
    /\ w_pc = "idle" /\ cr_pc = "idle" /\ c_pc = "idle" /\ k_pc = "idle"
    /\ \A w \in Waiters : waits[w].pc = "idle"

\* ------------------------------------------------------------ helpers
NoErr == [kind |-> "none", msg |-> <<>>]
Err(kind, msg) == [kind |-> kind, msg |-> msg]
NoStatus == [phase |-> NoneVal, results |-> <<>>, has_results |-> FALSE]

\* one entry of events: a request (its method, the kind of URL and the part
\* of the URL that varies, its headers, its form data) or a sleep
Request(method, kind, arg, headers, form) ==
    [method |-> method, kind |-> kind, arg |-> arg, secs |-> 0,
     headers |-> headers, form |-> form]
SleepNoDelay(secs) ==
    [method |-> "SLEEP", kind |-> "sleep", arg |-> <<>>, secs |-> 0,
     headers |-> {}, form |-> {}]
Sleep(secs) ==
    [method |-> "SLEEP", kind |-> "sleep", arg |-> <<>>, secs |-> secs,
     headers |-> {}, form |-> {}]

\* the token the client was built with
Token == "tok"
\* uwsclient.py __init__: self.headers, the session's default headers
CtxHeaders ==
    {<<"Authorization", <<"Bearer", Token>>>>,
     <<"Accept", <<"application/xml">>>>}
\* uws.py __init__: self.headers
UwsHeaders ==
    {<<"Authorization", <<"Bearer", Token>>>>,
     <<"Accept", <<"application/xml">>>>,
     <<"Content-Type", <<"application/x-www-form-urlencoded">>>>}
\* uws.py download_result: headers = self.headers.copy(); headers.pop("Accept")
DownloadHeaders == {h \in UwsHeaders : h[1] # "Accept"}
HeadersOf(variant) == IF variant = "uws" THEN UwsHeaders ELSE CtxHeaders

\* the headers of a request: the session's default headers; aiohttp adds
\* the form-urlencoded Content-Type to a request with form data that has
\* no Content-Type header
WireHeaders(headers, form) ==
    IF form # {} /\ ~(\E h \in headers : h[1] = "Content-Type")
       THEN headers \cup
            {<<"Content-Type", <<"application/x-www-form-urlencoded">>>>}
       ELSE headers

\* the parameters a caller passes to create_job: the keys with their values
\* (a value is a list of strings; <<NoneVal>> stands for None)
CallerParams ==
    {{<<"id", <<"img1">>>>},
     {<<"id", <<"img1">>>>, <<"circle", <<NoneVal>>>>}}
RunIds == {NoneVal, "", "run1"}

\* create_job: params["runid"] = run_id if run_id is truthy, and
\* params["phase"] = "RUN" if auto_start
WithJobParams(params, run_id, auto_start) ==
    LET keep1 == IF run_id \in {NoneVal, ""}
                    THEN params
                    ELSE {q \in params : q[1] # "runid"}
                         \cup {<<"runid", <<run_id>>>>}
    IN  IF auto_start
           THEN {q \in keep1 : q[1] # "phase"} \cup {<<"phase", <<"RUN">>>>}
           ELSE keep1

\* uws.py _prepare_form_data: a key whose value is None is left out
PrepareFormData(params) == {q \in params : q[2] # <<NoneVal>>}

\* the form data each client posts: uws.py prepares it, uwsclient.py
\* passes the parameters as they are
FormOf(variant, params, run_id, auto_start) ==
    IF variant = "uws"
       THEN PrepareFormData(WithJobParams(params, run_id, auto_start))
       ELSE WithJobParams(params, run_id, auto_start)

\* one entry of served
Reply(op, status, hasLoc, loc, body, xml, phase) ==
    [op |-> op, status |-> status, hasLoc |-> hasLoc, loc |-> loc,
     body |-> body, xml |-> xml, phase |-> phase]

Gets(kind) == {i \in 1..Len(events) :
                  events[i].method = "GET" /\ events[i].kind = kind}
NGets(kind) == Cardinality(Gets(kind))
NPosts == Cardinality({i \in 1..Len(events) : events[i].method = "POST"})

\* ------------------------------------------------------------- server
\* a <uws:result> element: its id, xlink:href and mime-type attributes
Hrefs == {NoneVal, "", "u1"}
ResultElems ==
    {[id |-> "r", xlink_href |-> h, mime_type_attr |-> "application/fits"] :
        h \in Hrefs}
\* a document's results block: absent, or a list of result elements
NoBlock == [present |-> FALSE, elems |-> <<>>]
ResultBlocks ==
    {NoBlock} \cup
    {[present |-> TRUE, elems |-> es] : es \in SeqsUpTo(ResultElems, MaxResults)}

\* the results blocks of the documents a wait is answered with
WaitBlocks == {b \in ResultBlocks : Len(b.elems) <= 1}

\* the job document of a 200 reply: malformed, or a phase text (NoneVal when
\* the phase element is absent)
DocPhases == PhaseTexts \cup {NoneVal}

\* the replies to a GET of the job document
JobReplies(op) ==
    {Reply(op, 200, FALSE, <<>>, "", "ok", p) : p \in DocPhases}
    \cup {Reply(op, 200, FALSE, <<>>, "", "malformed", NoneVal)}
    \cup {Reply(op, s, FALSE, <<>>, b, "none", NoneVal) :
            s \in {404, 500}, b \in Bodies}

\* the replies to the POST that creates a job
\* (a reply without a Location header, or with one of Locations)
CreateStatuses == {200, 302, 303, 500}
CreateReplies ==
    {Reply("create", s, TRUE, l, b, "none", NoneVal) :
        s \in CreateStatuses, l \in Locations, b \in Bodies}
    \cup {Reply("create", s, FALSE, <<>>, b, "none", NoneVal) :
            s \in CreateStatuses, b \in Bodies}

\* ------------------------------------------------------------- parser
ParseResultsReversed(block) ==
    [i \in 1..Len(block.elems) |->
        [id |-> block.elems[Len(block.elems) + 1 - i].id,
         href |-> block.elems[Len(block.elems) + 1 - i].xlink_href,
         mime_type |-> block.elems[Len(block.elems) + 1 - i].mime_type_attr]]
\* _parse_uws_response's loop over the result elements: one entry per
\* element, in document order
ParseResults(block) ==
    [i \in 1..Len(block.elems) |->
        [id |-> block.elems[i].id,
         href |-> block.elems[i].xlink_href,
         mime_type |-> block.elems[i].mime_type_attr]]

\* uwsclient.py _parse_uws_response: "results" is always a key ([] without
\* a results block); "phase" is always a key (None without a phase element)
ParseCtx(phase, block) ==
    [phase |-> phase,
     results |-> IF block.present THEN ParseResults(block) ELSE <<>>,
     has_results |-> TRUE]

\* uws.py _parse_uws_response: "results" is a key only with a results block
ParseUws(phase, block) ==
    [phase |-> phase,
     results |-> IF block.present THEN ParseResults(block) ELSE <<>>,
     has_results |-> block.present]

GetResultsFirstOnly(status) ==
    IF status.has_results /\ Len(status.results) > 0
       THEN <<status.results[1]>> ELSE <<>>
\* status.get("results", [])
GetResults(status) == IF status.has_results THEN status.results ELSE <<>>

\* ---------------------------------------------------------- job state
\* models.py: UWSPhase(value) is the member with that value, and raises
\* ValueError for any other value (None included)
UWSPhaseOk(value) == value \in EnumPhases

IsTerminalOnlyFailures(phase) == phase \in {"ERROR", "ABORTED"}
IsTerminalOnlyCompleted(phase) == phase = "COMPLETED"
\* uwsclient.py: phase in (UWSPhase.COMPLETED, UWSPhase.ERROR, UWSPhase.ABORTED)
IsTerminal(phase) == phase \in {"COMPLETED", "ERROR", "ABORTED"}

\* ------------------------------------------------------------ sessions
\* __aenter__: self.session = aiohttp.ClientSession(headers=self.headers)
AEnter ==
    /\ session = "none"
    /\ Idle
    /\ session' = "open"
    /\ open_sessions' = open_sessions + 1
    /\ UNCHANGED <<now, events, served, waitVars, createVars, cutoutVars,
                   callVars, waits>>

\* __aexit__: if self.session: await self.session.close(); self.session
\* keeps the closed session object
AExit ==
    /\ session = "open"
    /\ w_pc \notin {"poll", "sleep"}
    /\ session' = "closed"
    /\ open_sessions' = open_sessions - 1
    /\ UNCHANGED <<now, events, served, waitVars, createVars, cutoutVars,
                   callVars, waits>>

\* _check_session: raises RuntimeError when self.session is None
CheckSessionOk == session # "none"
NotContextManager ==
    Err("RuntimeError",
        <<"UWSClient must be used as an async context manager">>)
\* aiohttp's error for a request on a closed session
SessionClosed == Err("RuntimeError", <<"Session is closed">>)

\* a request on the client's session: aiohttp refuses a closed session
\* with RuntimeError("Session is closed") and sends nothing
SessionUsable == session = "open"

ClosesOnlyOnSuccess(raised) == ~raised
\* uws.py "async with aiohttp.ClientSession(...) as session": the session
\* is closed when the block is left, by a return or by an exception
ClosesOnExit(raised) == TRUE

\* the open sessions after a call of the per-operation client that opened
\* one and ended by a return or by an exception
SessionsAfterCall(raised) ==
    open_sessions + 1 - (IF ClosesOnExit(raised) THEN 1 ELSE 0)

\* --------------------------------------------------------- create_job
RECURSIVE Split(_)
\* str.split("/"): the pieces between the separators, in order
Split(s) ==
    IF \A i \in 1..Len(s) : s[i] # "/" THEN <<s>>
    ELSE LET k == CHOOSE i \in 1..Len(s) :
                      s[i] = "/" /\ \A j \in 1..(i - 1) : s[j] # "/"
         IN  <<SubSeq(s, 1, k - 1)>> \o Split(SubSeq(s, k + 1, Len(s)))

JobIdFirstSegment(location) == Split(location)[1]
JobIdLastNonEmpty(location) ==
    LET segs == SelectSeq(Split(location), LAMBDA x : x # <<>>)
    IN  IF segs = <<>> THEN <<>> ELSE segs[Len(segs)]
\* location.split("/")[-1]
JobIdFromLocation(location) == Split(location)[Len(Split(location))]

\* allow_redirects=False of the POST
AllowRedirects == FALSE

\* aiohttp follows a redirect status with a Location when allowed to
FollowsRedirect(reply) ==
    AllowRedirects /\ reply.status \in {302, 303} /\ reply.hasLoc

\* the requests one POST to the jobs endpoint puts on the wire
PostRequests(variant, form, reply) ==
    <<Request("POST", "jobs", <<>>,
              WireHeaders(HeadersOf(variant), form), form)>> \o
    (IF FollowsRedirect(reply)
        THEN <<Request("GET", "location", reply.loc, HeadersOf(variant), {})>>
        ELSE <<>>)

\* the status the code reads off the response object
SeenStatus(reply) == IF FollowsRedirect(reply) THEN 200 ELSE reply.status

\* response.headers.get("Location", "")
LocationHeader(reply) == IF reply.hasLoc THEN reply.loc ELSE <<>>

\* uws.py: raise Exception(f"Failed to create job: {text}")
CreateErrUws(reply) ==
    Err("Exception", <<"Failed to create job:", reply.body>>)
\* uwsclient.py: raise Exception(f"Failed to create job: {resp.status} {text}")
CreateErrCtx(reply) ==
    Err("Exception",
        <<"Failed to create job:", StatusStr(SeenStatus(reply)), reply.body>>)

\* the body of "async with session.post(...) as response" in both clients
CreateOutcome(variant, reply) ==
    IF SeenStatus(reply) = 303
        THEN [pc |-> "returned",
              ret |-> JobIdFromLocation(LocationHeader(reply)),
              err |-> NoErr]
        ELSE [pc |-> "raised",
              ret |-> <<>>,
              err |-> IF variant = "uws" THEN CreateErrUws(reply)
                                         ELSE CreateErrCtx(reply)]

\* uws.py UWSClient.create_job, called on its own
CreateJobUws ==
    /\ Idle /\ session = "none"
    /\ \E reply \in CreateReplies, params \in CallerParams,
          run_id \in RunIds, auto_start \in BOOLEAN :
         LET out == CreateOutcome("uws", reply)
             form == FormOf("uws", params, run_id, auto_start)
         IN  /\ events' = events \o PostRequests("uws", form, reply)
             /\ served' = Append(served, reply)
             /\ cr_pc' = out.pc
             /\ cr_ret' = out.ret
             /\ cr_err' = out.err
    /\ cr_variant' = "uws"
    /\ open_sessions' = SessionsAfterCall(cr_pc' = "raised")
    /\ UNCHANGED <<now, session, waitVars, cutoutVars, callVars, waits>>

\* uwsclient.py UWSClient.create_job
CreateJobCtx ==
    /\ Idle
    /\ cr_variant' = "ctx"
    /\ IF ~CheckSessionOk
          THEN /\ cr_pc' = "raised"
               /\ cr_err' = NotContextManager
               /\ UNCHANGED <<events, served, cr_ret>>
       ELSE IF ~SessionUsable
          THEN /\ cr_pc' = "raised"
               /\ cr_err' = SessionClosed
               /\ UNCHANGED <<events, served, cr_ret>>
       ELSE \E reply \in CreateReplies, params \in CallerParams,
               run_id \in RunIds, auto_start \in BOOLEAN :
              LET out == CreateOutcome("ctx", reply)
                  form == FormOf("ctx", params, run_id, auto_start)
              IN  /\ events' = events \o PostRequests("ctx", form, reply)
                  /\ served' = Append(served, reply)
                  /\ cr_pc' = out.pc
                  /\ cr_ret' = out.ret
                  /\ cr_err' = out.err
    /\ UNCHANGED <<now, session, waitVars, cutoutVars, open_sessions,
                   callVars, waits>>

\* ---------------------------------------------- wait_for_job_completion
JobIds == {<<"a">>}

\* raise Exception(f"Failed to get job status: {resp.status} {text}")
StatusErr(reply) ==
    Err("Exception",
        <<"Failed to get job status:", StatusStr(reply.status), reply.body>>)
ParseErrAsFailure == Err("Exception", <<"not well-formed">>)
\* ET.fromstring on a document that is not well-formed
ParseErr == Err("ParseError", <<"not well-formed">>)
\* UWSPhase(value) on a value that is no member
PhaseValueErr(value) ==
    Err("ValueError", <<value, "is not a valid UWSPhase">>)
\* raise TimeoutError(f"Job {job_id} did not complete within {timeout} seconds")
TimeoutErr == Err("TimeoutError", <<"Job did not complete within timeout">>)

\* asyncio.get_event_loop().time() - start_time > timeout
DeadlineExceeded(t) == t - w_start > w_timeout

WaitVerdictDeadlineFirst(phase, t) ==
    IF DeadlineExceeded(t) THEN "timeout"
    ELSE IF IsTerminal(phase) THEN "returned"
    ELSE "sleep"
\* the end of one iteration, for a phase of the enumeration seen at instant
\* t: "if phase in (COMPLETED, ERROR, ABORTED): return status" comes first,
\* then the test of the deadline, then the sleep
WaitVerdict(phase, t) ==
    IF IsTerminal(phase) THEN "returned"
    ELSE IF DeadlineExceeded(t) THEN "timeout"
    ELSE "sleep"

StatusOkOrNotFound(reply) == reply.status \in {200, 404}
\* "if resp.status == 200": the one status whose body is parsed
StatusOk(reply) == reply.status = 200

\* the call itself: _check_session, then start_time is read
WaitCall ==
    /\ Idle
    /\ \E job \in JobIds, t \in 0..MaxTimeout, p \in 0..MaxInterval,
          d \in 0..MaxLatency :
         /\ w_job' = job
         /\ w_timeout' = t
         /\ w_interval' = p
         /\ now' = now + d
         /\ IF CheckSessionOk
               THEN w_pc' = "poll" /\ w_start' = now' /\ w_err' = w_err
               ELSE w_pc' = "raised" /\ w_start' = w_start
                    /\ w_err' = NotContextManager
    /\ UNCHANGED <<events, served, session, w_status, createVars, cutoutVars,
                   open_sessions, callVars, waits>>

\* one iteration of "while True", up to the sleep: get_job_status, the
\* phase conversion, the terminal check and the deadline check
WaitPoll ==
    /\ w_pc = "poll"
    /\ NGets("job") < MaxPolls
    /\ IF ~SessionUsable
          THEN /\ w_pc' = "raised"
               /\ w_err' = SessionClosed
               /\ UNCHANGED <<now, events, served, w_status>>
          ELSE \E reply \in JobReplies("status"), block \in WaitBlocks,
                  d \in 0..MaxLatency :
                 /\ now' = now + d
                 /\ events' = Append(events,
                       Request("GET", "job", w_job, CtxHeaders, {}))
                 /\ served' = Append(served, reply)
                 /\ IF ~StatusOk(reply)
                       THEN w_pc' = "raised" /\ w_err' = StatusErr(reply)
                            /\ w_status' = w_status
                    ELSE IF reply.xml # "ok"
                       THEN w_pc' = "raised" /\ w_err' = ParseErr
                            /\ w_status' = w_status
                    ELSE IF ~UWSPhaseOk(reply.phase)
                       THEN w_pc' = "raised"
                            /\ w_err' = PhaseValueErr(reply.phase)
                            /\ w_status' = w_status
                    ELSE IF WaitVerdict(reply.phase, now') = "returned"
                       THEN w_pc' = "returned"
                            /\ w_status' = ParseCtx(reply.phase, block)
                            /\ w_err' = w_err
                    ELSE IF WaitVerdict(reply.phase, now') = "timeout"
                       THEN w_pc' = "raised" /\ w_err' = TimeoutErr
                            /\ w_status' = w_status
                    ELSE w_pc' = "sleep" /\ w_err' = w_err
                         /\ w_status' = w_status
    /\ UNCHANGED <<session, w_job, w_timeout, w_interval, w_start,
                   createVars, cutoutVars, open_sessions, callVars, waits>>

\* await asyncio.sleep(poll_interval)
WaitSleep ==
    /\ w_pc = "sleep"
    /\ now' = now + w_interval
    /\ events' = Append(events, Sleep(w_interval))
    /\ w_pc' = "poll"
    /\ UNCHANGED <<served, session, w_job, w_timeout, w_interval, w_start,
                   w_status, w_err, createVars, cutoutVars, open_sessions,
                   callVars, waits>>

\* ------------------------------------------------------- async_cutout
\* the replies to async_cutout's POST: no Location header, or one of at
\* most one character
CutoutCreateReplies ==
    {r \in CreateReplies :
        r.status \in {303, 500} /\ r.body = "bad request" /\ Len(r.loc) <= 1}

\* the replies to get_job_results' GET of the job document
ResultsReplies ==
    {r \in JobReplies("results") :
        r.phase \in {"COMPLETED", "ERROR", NoneVal} /\ r.body # "not found"}

JobFailedErrNoPhase(phase) == Err("Exception", <<"Job failed with phase">>)
\* raise Exception(f"Job failed with phase {phase}")
JobFailedErr(phase) == Err("Exception", <<"Job failed with phase", phase>>)
\* raise Exception(f"Failed to get results: {text}")
ResultsErr(reply) == Err("Exception", <<"Failed to get results:", reply.body>>)
\* raise Exception(f"Failed to download result: {error}")
DownloadErrNoBody(body) == Err("Exception", <<"Failed to download result:">>)
DownloadErr(body) == Err("Exception", <<"Failed to download result:", body>>)
\* aiohttp's refusal of a URL that is None or empty: nothing is sent
InvalidUrlErr == Err("InvalidURL", <<"invalid url">>)
\* os.makedirs, open or write failing
OsErrAsDownloadFailure(what) ==
    Err("Exception", <<"Failed to download result:", what>>)
OsErr(what) == Err("OSError", <<what>>)

IsFailurePhaseOnlyError(phase) == phase = "ERROR"
\* client.py: elif phase in ("ERROR", "ABORTED")
IsFailurePhase(phase) == phase \in {"ERROR", "ABORTED"}

\* the caller's output_dir
OutputDir == "out"

OutputPathNoIndex(i) == [dir |-> OutputDir, name |-> <<"cutout_", 0, ".fits">>]
\* os.path.join(output_dir, f"cutout_{i}.fits")
OutputPath(i) == [dir |-> OutputDir, name |-> <<"cutout_", i, ".fits">>]

\* create_cutout_job's params for image_ids = ["img1"], circle = ["10 20 1"]
\* and no pos or polygon
CutoutParams == {<<"id", <<"img1">>>>, <<"circle", <<"10 20 1">>>>}

\* create_cutout_job (run_id None, auto_start True): the POST of uws.py
\* create_job
CutoutCreate ==
    /\ Idle /\ session = "none"
    /\ \E reply \in CutoutCreateReplies :
         LET out == CreateOutcome("uws", reply)
             form == FormOf("uws", CutoutParams, NoneVal, TRUE)
         IN  /\ events' = events \o PostRequests("uws", form, reply)
             /\ served' = Append(served, reply)
             /\ c_pc' = IF out.pc = "returned" THEN "poll" ELSE "raised"
             /\ c_job' = out.ret
             /\ c_err' = out.err
    /\ open_sessions' = SessionsAfterCall(c_pc' = "raised")
    /\ UNCHANGED <<now, session, waitVars, createVars, c_results, c_doc, c_i,
                   attempts, written, dirs_made, callVars, waits>>

NStatusReplies ==
    Cardinality({i \in 1..Len(served) : served[i].op = "status"})

\* the body of "while True" once get_job_status was answered with reply:
\* the errors of get_job_status, then the branch on status.get("phase");
\* there is no test of the time elapsed
CutoutBranch(reply) ==
    IF ~StatusOk(reply)
       THEN c_pc' = "raised" /\ c_err' = StatusErr(reply)
    ELSE IF reply.xml # "ok"
       THEN c_pc' = "raised" /\ c_err' = ParseErr
    ELSE IF reply.phase = "COMPLETED"
       THEN c_pc' = "results" /\ c_err' = c_err
    ELSE IF IsFailurePhase(reply.phase)
       THEN c_pc' = "raised" /\ c_err' = JobFailedErr(reply.phase)
    ELSE c_pc' = "sleep" /\ c_err' = c_err

\* one iteration of "while True", up to the branch on the phase:
\* get_job_status (uws.py) and the comparison of status.get("phase")
CutoutPoll ==
    /\ c_pc = "poll"
    /\ NStatusReplies < MaxCutoutPolls
    /\ \E reply \in JobReplies("status") :
         /\ events' = Append(events,
               Request("GET", "job", c_job, UwsHeaders, {}))
         /\ served' = Append(served, reply)
         /\ CutoutBranch(reply)
    /\ open_sessions' = SessionsAfterCall(c_pc' = "raised")
    /\ UNCHANGED <<now, session, waitVars, createVars, c_job, c_results, c_doc,
                   c_i,
                   attempts, written, dirs_made, callVars, waits>>

\* await asyncio.sleep(5)
CutoutSleep ==
    /\ c_pc = "sleep"
    /\ now' = now + CutoutPollInterval
    /\ events' = Append(events, Sleep(CutoutPollInterval))
    /\ c_pc' = "poll"
    /\ UNCHANGED <<served, session, waitVars, createVars, c_job, c_results,
                   c_doc,
                   c_i, c_err, attempts, written, dirs_made, open_sessions,
                   callVars, waits>>

\* results = await client.get_job_results(job_id): a second GET of the job
\* document; with no result the for loop does nothing and the call ends
CutoutGetResults ==
    /\ c_pc = "results"
    /\ \E reply \in ResultsReplies, block \in ResultBlocks :
         /\ events' = Append(events,
               Request("GET", "job", c_job, UwsHeaders, {}))
         /\ served' = Append(served, reply)
         /\ IF ~StatusOk(reply)
               THEN c_pc' = "raised" /\ c_err' = ResultsErr(reply)
                    /\ c_results' = c_results /\ c_doc' = c_doc
            ELSE IF reply.xml # "ok"
               THEN c_pc' = "raised" /\ c_err' = ParseErr
                    /\ c_results' = c_results /\ c_doc' = c_doc
            ELSE LET results == GetResults(ParseUws(reply.phase, block))
                 IN  /\ c_results' = results
                     /\ c_doc' = block
                     /\ c_pc' = IF Len(results) = 0 THEN "done" ELSE "download"
                     /\ c_err' = c_err
    /\ c_i' = 0
    /\ open_sessions' = SessionsAfterCall(c_pc' = "raised")
    /\ UNCHANGED <<now, session, waitVars, createVars, c_job, attempts,
                   written, dirs_made, callVars, waits>>

\* what the file system and the server do to one download
DownloadEnvs ==
    [fs : {"ok", "mkdir_fail", "open_fail", "write_fail"},
     status : {200, 404}]

\* one iteration of the for loop: download_result(result["href"], output_path)
CutoutDownload ==
    /\ c_pc = "download"
    /\ LET href == c_results[c_i + 1].href
           path == OutputPath(c_i)
       IN  /\ attempts' = Append(attempts, [pos |-> c_i, href |-> href])
           /\ \E env \in DownloadEnvs :
                IF env.fs = "mkdir_fail"
                   THEN /\ c_pc' = "raised" /\ c_err' = OsErr("makedirs")
                        /\ UNCHANGED <<events, served, written, dirs_made, c_i,
                                       open_sessions>>
                ELSE IF href \in {NoneVal, ""}
                   THEN /\ c_pc' = "raised" /\ c_err' = InvalidUrlErr
                        /\ dirs_made' = TRUE
                        /\ open_sessions' = SessionsAfterCall(TRUE)
                        /\ UNCHANGED <<events, served, written, c_i>>
                ELSE
                   /\ dirs_made' = TRUE
                   /\ open_sessions' = SessionsAfterCall(c_pc' = "raised")
                   /\ events' = Append(events, Request("GET", "result", <<href>>,
                                                     DownloadHeaders, {}))
                   /\ served' = Append(served,
                         Reply("download", env.status, FALSE, <<>>,
                               IF env.status = 200 THEN "" ELSE "not found",
                               "none", NoneVal))
                   /\ IF env.status # 200
                         THEN /\ c_pc' = "raised"
                              /\ c_err' = DownloadErr("not found")
                              /\ UNCHANGED <<written, c_i>>
                      ELSE IF env.fs = "open_fail"
                         THEN /\ c_pc' = "raised" /\ c_err' = OsErr("open")
                              /\ UNCHANGED <<written, c_i>>
                      ELSE IF env.fs = "write_fail"
                         THEN /\ c_pc' = "raised" /\ c_err' = OsErr("write")
                              /\ written' = Append(written,
                                    [pos |-> c_i, path |-> path,
                                     content |-> "partial"])
                              /\ c_i' = c_i
                      ELSE /\ written' = Append(written,
                                    [pos |-> c_i, path |-> path,
                                     content |-> "complete"])
                           /\ c_i' = c_i + 1
                           /\ c_pc' = IF c_i + 1 = Len(c_results)
                                         THEN "done" ELSE "download"
                           /\ c_err' = c_err
    /\ UNCHANGED <<now, session, waitVars, createVars, c_job, c_results,
                   c_doc,
                   callVars, waits>>

\* ------------------------------------------- single calls of a client
Variants == {"uws", "ctx"}

\* the result elements of the documents a single call is answered with
DocElems ==
    [id : {"r1", "r2"}, xlink_href : Hrefs,
     mime_type_attr : {"application/fits", NoneVal}]
DocBlocks ==
    {NoBlock} \cup
    {[present |-> TRUE, elems |-> es] : es \in SeqsUpTo(DocElems, MaxResults)}

\* _parse_uws_response of the client called
ParseOf(variant, phase, block) ==
    IF variant = "uws" THEN ParseUws(phase, block) ELSE ParseCtx(phase, block)

\* a method of the context-manager client called with no usable session:
\* _check_session raises when the client was never entered; after the exit
\* self.session is still set, and the closed session refuses the request
NoSessionErr == IF CheckSessionOk THEN SessionClosed ELSE NotContextManager

\* the open sessions after a call of the client: the per-operation client
\* opens one and leaves its block, the context-manager client opens none
SessionsAfter(variant, raised) ==
    IF variant = "uws" THEN SessionsAfterCall(raised) ELSE open_sessions

\* the state a client is called in: the per-operation client has no
\* session of its own, the context-manager client any state of its session
Callable(variant) == Idle /\ (variant = "uws" => session = "none")

\* get_job_status(job_id)
GetJobStatus(variant) ==
    /\ Callable(variant)
    /\ k_op' = "get_job_status"
    /\ k_variant' = variant
    /\ IF variant = "ctx" /\ ~SessionUsable
          THEN /\ k_pc' = "raised"
               /\ k_err' = NoSessionErr
               /\ UNCHANGED <<events, served, k_doc, k_status, open_sessions>>
          ELSE \E job \in JobIds, reply \in JobReplies("status"),
                  block \in WaitBlocks :
                 /\ events' = Append(events,
                       Request("GET", "job", job, HeadersOf(variant), {}))
                 /\ served' = Append(served, reply)
                 /\ IF ~StatusOk(reply)
                       THEN /\ k_pc' = "raised" /\ k_err' = StatusErr(reply)
                            /\ UNCHANGED <<k_doc, k_status>>
                    ELSE IF reply.xml # "ok"
                       THEN /\ k_pc' = "raised" /\ k_err' = ParseErr
                            /\ UNCHANGED <<k_doc, k_status>>
                    ELSE /\ k_pc' = "returned" /\ k_err' = k_err
                         /\ k_doc' = block
                         /\ k_status' = ParseOf(variant, reply.phase, block)
                 /\ open_sessions' = SessionsAfter(variant, k_pc' = "raised")
    /\ UNCHANGED <<now, session, waitVars, createVars, cutoutVars, k_results,
                   k_before, k_file, k_dirs, waits>>

\* the error of get_job_results for a reply that is not a 200: uws.py has
\* its own message, uwsclient.py lets get_job_status raise
ResultsErrOf(variant, reply) ==
    IF variant = "uws" THEN ResultsErr(reply) ELSE StatusErr(reply)

\* get_job_results(job_id)
GetJobResults(variant) ==
    /\ Callable(variant)
    /\ k_op' = "get_job_results"
    /\ k_variant' = variant
    /\ IF variant = "ctx" /\ ~SessionUsable
          THEN /\ k_pc' = "raised"
               /\ k_err' = NoSessionErr
               /\ UNCHANGED <<events, served, k_doc, k_results, open_sessions>>
          ELSE \E job \in JobIds, reply \in ResultsReplies,
                  block \in DocBlocks :
                 /\ events' = Append(events,
                       Request("GET", "job", job, HeadersOf(variant), {}))
                 /\ served' = Append(served, reply)
                 /\ IF ~StatusOk(reply)
                       THEN /\ k_pc' = "raised"
                            /\ k_err' = ResultsErrOf(variant, reply)
                            /\ UNCHANGED <<k_doc, k_results>>
                    ELSE IF reply.xml # "ok"
                       THEN /\ k_pc' = "raised" /\ k_err' = ParseErr
                            /\ UNCHANGED <<k_doc, k_results>>
                    ELSE /\ k_pc' = "returned" /\ k_err' = k_err
                         /\ k_doc' = block
                         /\ k_results' =
                               GetResults(ParseOf(variant, reply.phase, block))
                 /\ open_sessions' = SessionsAfter(variant, k_pc' = "raised")
    /\ UNCHANGED <<now, session, waitVars, createVars, cutoutVars, k_status,
                   k_before, k_file, k_dirs, waits>>

\* uwsclient.py download_result:
\* raise Exception(f"Failed to download result: {resp.status} {text}")
DownloadErrCtx(status, body) ==
    Err("Exception", <<"Failed to download result:", StatusStr(status), body>>)
DownloadErrOf(variant, status, body) ==
    IF variant = "uws" THEN DownloadErr(body) ELSE DownloadErrCtx(status, body)

\* the headers of the download's GET: uws.py pops Accept from a copy of its
\* headers, uwsclient.py uses the session with its default headers
DownloadHeadersOf(variant) ==
    IF variant = "uws" THEN DownloadHeaders ELSE CtxHeaders

\* the file at output_path before the call
FilesBefore == {"absent", "old"}

FileAfterOpenFirst(status, fs, before) ==
    IF fs = "open_fail" THEN before
    ELSE IF status # 200 THEN "empty"
    ELSE IF fs = "write_fail" THEN "partial"
    ELSE "complete"
\* the file at output_path once the request was answered: it is opened
\* ("wb") only inside "if response.status == 200", and then written chunk
\* by chunk
FileAfter(status, fs, before) ==
    IF status # 200 THEN before
    ELSE IF fs = "open_fail" THEN before
    ELSE IF fs = "write_fail" THEN "partial"
    ELSE "complete"

\* download_result(result_url, output_path)
DownloadResult(variant) ==
    /\ Callable(variant)
    /\ k_op' = "download_result"
    /\ k_variant' = variant
    /\ \E url \in Hrefs, env \in DownloadEnvs, before \in FilesBefore :
         /\ k_before' = before
         /\ IF variant = "ctx" /\ ~CheckSessionOk
               THEN /\ k_pc' = "raised" /\ k_err' = NotContextManager
                    /\ k_file' = before
                    /\ UNCHANGED <<events, served, k_dirs, open_sessions>>
            ELSE IF env.fs = "mkdir_fail"
               THEN /\ k_pc' = "raised" /\ k_err' = OsErr("makedirs")
                    /\ k_file' = before
                    /\ UNCHANGED <<events, served, k_dirs, open_sessions>>
            ELSE IF variant = "ctx" /\ ~SessionUsable
               THEN /\ k_pc' = "raised" /\ k_err' = SessionClosed
                    /\ k_file' = before
                    /\ k_dirs' = TRUE
                    /\ UNCHANGED <<events, served, open_sessions>>
            ELSE IF url \in {NoneVal, ""}
               THEN /\ k_pc' = "raised" /\ k_err' = InvalidUrlErr
                    /\ k_file' = before
                    /\ k_dirs' = TRUE
                    /\ open_sessions' = SessionsAfter(variant, TRUE)
                    /\ UNCHANGED <<events, served>>
            ELSE
               /\ k_dirs' = TRUE
               /\ open_sessions' = SessionsAfter(variant, k_pc' = "raised")
               /\ events' = Append(events,
                     Request("GET", "result", <<url>>,
                             DownloadHeadersOf(variant), {}))
               /\ served' = Append(served,
                     Reply("download", env.status, FALSE, <<>>,
                           IF env.status = 200 THEN "" ELSE "not found",
                           "none", NoneVal))
               /\ k_file' = FileAfter(env.status, env.fs, before)
               /\ IF ~(env.status = 200)
                     THEN /\ k_pc' = "raised"
                          /\ k_err' = DownloadErrOf(variant, env.status,
                                                    "not found")
                  ELSE IF env.fs = "open_fail"
                     THEN /\ k_pc' = "raised" /\ k_err' = OsErr("open")
                  ELSE IF env.fs = "write_fail"
                     THEN /\ k_pc' = "raised" /\ k_err' = OsErr("write")
                  ELSE /\ k_pc' = "returned" /\ k_err' = k_err
    /\ UNCHANGED <<now, session, waitVars, createVars, cutoutVars, k_doc,
                   k_status, k_results, waits>>

\* ------------------------------------------------------ specification
\* a wait loop that has not been called
IdleWait ==
    [pc |-> "idle", job |-> <<>>, timeout |-> 0, interval |-> 0, start |-> 0,
     wake |-> 0, phase |-> NoneVal, err |-> NoErr, hist |-> <<>>]

Init ==
    /\ now = 0
    /\ events = <<>>
    /\ served = <<>>
    /\ session = "none"
    /\ w_pc = "idle"
    /\ w_job = <<>>
    /\ w_timeout = 0
    /\ w_interval = 0
    /\ w_start = 0
    /\ w_status = NoStatus
    /\ w_err = NoErr
    /\ cr_pc = "idle"
    /\ cr_variant = "none"
    /\ cr_ret = <<>>
    /\ cr_err = NoErr
    /\ c_pc = "idle"
    /\ c_job = <<>>
    /\ c_results = <<>>
    /\ c_doc = NoBlock
    /\ c_i = 0
    /\ c_err = NoErr
    /\ attempts = <<>>
    /\ written = <<>>
    /\ dirs_made = FALSE
    /\ open_sessions = 0
    /\ k_pc = "idle"
    /\ k_op = "none"
    /\ k_variant = "none"
    /\ k_doc = NoBlock
    /\ k_status = NoStatus
    /\ k_results = <<>>
    /\ k_before = "absent"
    /\ k_file = "absent"
    /\ k_dirs = FALSE
    /\ k_err = NoErr
    /\ waits = [w \in Waiters |-> IdleWait]

Next ==
    \/ AEnter
    \/ AExit
    \/ CreateJobUws
    \/ CreateJobCtx
    \/ WaitCall
    \/ WaitPoll
    \/ WaitSleep
    \/ CutoutCreate
    \/ CutoutPoll
    \/ CutoutSleep
    \/ CutoutGetResults
    \/ CutoutDownload
    \/ \E variant \in Variants : GetJobStatus(variant)
    \/ \E variant \in Variants : GetJobResults(variant)
    \/ \E variant \in Variants : DownloadResult(variant)

Spec == Init /\ [][Next]_vars

\* ---------------------------------------- async_cutout without its log
\* async_cutout with the requests, the replies and the clock of its poll
\* loop left unrecorded, so that a loop of any length is a path of the
\* model: the same iteration and the same sleep, with no bound on the polls
CutoutPollUnlogged ==
    /\ c_pc = "poll"
    /\ \E reply \in JobReplies("status") : CutoutBranch(reply)
    /\ open_sessions' = SessionsAfterCall(c_pc' = "raised")
    /\ UNCHANGED <<now, events, served, session, waitVars, createVars, c_job,
                   c_results, c_doc, c_i, attempts, written, dirs_made,
                   callVars,
                   waits>>

CutoutSleepUnlogged ==
    /\ c_pc = "sleep"
    /\ c_pc' = "poll"
    /\ UNCHANGED <<now, events, served, session, waitVars, createVars, c_job,
                   c_results, c_doc, c_i, c_err, attempts, written, dirs_made,
                   open_sessions, callVars, waits>>

NextCutout ==
    \/ CutoutCreate
    \/ CutoutPollUnlogged
    \/ CutoutSleepUnlogged
    \/ CutoutGetResults
    \/ CutoutDownload

\* the event loop runs the one task there is: async_cutout goes on whenever
\* it can, the server answering every request
SpecCutout == Init /\ [][NextCutout]_vars /\ WF_vars(NextCutout)

\* ------------------------------------------------ concurrent wait loops
\* wait_for_job_completion called by several tasks on one entered client
\* (asyncio.gather): the loops run interleaved, a step at a time, on one
\* clock; each loop keeps the replies it was given and their instants
JobOf == (1 :> <<"a">>) @@ (2 :> <<"b">>)

\* the replies to the status fetches of concurrent loops
ConcReplies ==
    {r \in JobReplies("status") :
        \/ r.status = 200 /\ r.xml = "ok" /\ r.phase \in {"EXECUTING", "COMPLETED"}
        \/ r.status = 500 /\ r.body = "bad request"}

StartOfFirst(w) == waits[1].start
\* start_time, a local of each call
StartOf(w) == waits[w].start

\* one iteration of the loop after its fetch was answered with reply at
\* instant t: where the loop goes, the phase it returns, its error
WaitOutcome(reply, t, start, timeout) ==
    IF ~StatusOk(reply)
       THEN [pc |-> "raised", phase |-> NoneVal, err |-> StatusErr(reply)]
    ELSE IF reply.xml # "ok"
       THEN [pc |-> "raised", phase |-> NoneVal, err |-> ParseErr]
    ELSE IF ~UWSPhaseOk(reply.phase)
       THEN [pc |-> "raised", phase |-> NoneVal,
             err |-> PhaseValueErr(reply.phase)]
    ELSE IF IsTerminal(reply.phase)
       THEN [pc |-> "returned", phase |-> reply.phase, err |-> NoErr]
    ELSE IF t - start > timeout
       THEN [pc |-> "raised", phase |-> NoneVal, err |-> TimeoutErr]
    ELSE [pc |-> "sleep", phase |-> NoneVal, err |-> NoErr]

\* the call of one loop: _check_session, then start_time is read
ConcCall(w) ==
    /\ waits[w].pc = "idle"
    /\ w_pc = "idle" /\ cr_pc = "idle" /\ c_pc = "idle" /\ k_pc = "idle"
    /\ SessionUsable
    /\ \E t \in {0, MaxTimeout} :
         waits' = [waits EXCEPT ![w] =
                     [@ EXCEPT !.pc = "poll", !.job = JobOf[w],
                               !.timeout = t, !.interval = MaxInterval,
                               !.start = now]]
    /\ UNCHANGED <<now, events, served, session, waitVars, createVars,
                   cutoutVars, open_sessions, callVars>>

\* one iteration of one loop, up to its sleep
ConcPoll(w) ==
    /\ waits[w].pc = "poll"
    /\ Len(waits[w].hist) < MaxConcPolls
    /\ \E reply \in ConcReplies :
         LET out == WaitOutcome(reply, now, StartOf(w), waits[w].timeout)
         IN  waits' = [waits EXCEPT ![w] =
                         [@ EXCEPT !.pc = out.pc, !.phase = out.phase,
                                   !.err = out.err,
                                   !.wake = now + waits[w].interval,
                                   !.hist = Append(@,
                                      [job |-> waits[w].job, reply |-> reply,
                                       at |-> now])]]
    /\ UNCHANGED <<now, events, served, session, waitVars, createVars,
                   cutoutVars, open_sessions, callVars>>

\* asyncio.sleep(poll_interval) of one loop is over
ConcWake(w) ==
    /\ waits[w].pc = "sleep"
    /\ now >= waits[w].wake
    /\ waits' = [waits EXCEPT ![w].pc = "poll"]
    /\ UNCHANGED <<now, events, served, session, waitVars, createVars,
                   cutoutVars, open_sessions, callVars>>

\* time passes while the loops wait for a reply or sleep
Tick ==
    /\ \E w \in Waiters : waits[w].pc \in {"poll", "sleep"}
    /\ now < MaxNow
    /\ now' = now + 1
    /\ UNCHANGED <<events, served, session, waitVars, createVars, cutoutVars,
                   open_sessions, callVars, waits>>

NextConc ==
    \/ AEnter
    \/ \E w \in Waiters : ConcCall(w)
    \/ \E w \in Waiters : ConcPoll(w)
    \/ \E w \in Waiters : ConcWake(w)
    \/ Tick

SpecConc == Init /\ [][NextConc]_vars

\* ------------------------------------------------------------- claims
Range(q) == {q[i] : i \in 1..Len(q)}
Terminal == {"COMPLETED", "ERROR", "ABORTED"}
\* reply r is a 200 with a well-formed document
OkDoc(r) == r.status = 200 /\ r.xml = "ok"
\* reply r is a 200 with a well-formed document whose phase is p
OkPhase(r, p) == OkDoc(r) /\ r.phase = p
InWait == w_pc # "idle"
InCutout == c_pc # "idle"
InCreate == cr_pc # "idle"
\* the replies given to the poll loop's status fetches
StatusIdx == {i \in 1..Len(served) : served[i].op = "status"}
\* the replies given to any GET of the job document
JobDocIdx == {i \in 1..Len(served) : served[i].op \in {"status", "results"}}

\* C1: when the status source answers EXECUTING k times and then COMPLETED
\* (every fetch succeeding, the deadline not reached), the wait makes exactly
\* k+1 status fetches and returns the COMPLETED status: while only the k
\* EXECUTING answers have been given it is still running (or has hit the
\* deadline), and the answer COMPLETED to fetch k+1 ends it at once.
C1_ExecutingThenCompleted ==
    InWait =>
      \A k \in 0..MaxPolls :
        (k <= Len(served) /\ \A i \in 1..k : OkPhase(served[i], "EXECUTING")) =>
          /\ (Len(served) = k /\ k > 0) =>
                \/ w_pc \in {"poll", "sleep"}
                \/ w_pc = "raised" /\ w_err.kind = "TimeoutError"
          /\ (Len(served) > k /\ OkPhase(served[k + 1], "COMPLETED")) =>
                /\ Len(served) = k + 1
                /\ NGets("job") = k + 1
                /\ w_pc = "returned"
                /\ w_status.phase = "COMPLETED"
                /\ w_err = NoErr

C1_Witness ==
    /\ w_pc = "returned"
    /\ Len(served) = 3
    /\ OkPhase(served[1], "EXECUTING") /\ OkPhase(served[2], "EXECUTING")
    /\ w_status.phase = "COMPLETED"
    /\ NGets("job") = 3

\* C2: a wait whose status source never reports a terminal phase and whose
\* fetches all succeed ends only by the deadline error, and that error is
\* raised only when more than timeout has elapsed since the wait started.
C2_NonTerminalEndsByDeadline ==
    /\ (/\ w_pc = "raised"
        /\ Len(served) >= 1
        /\ \A i \in 1..Len(served) :
              OkDoc(served[i]) /\ served[i].phase \notin Terminal)
         => w_err.kind = "TimeoutError"
    /\ (w_pc = "raised" /\ w_err.kind = "TimeoutError")
         => now - w_start > w_timeout

\* C3: in both poll loops a fetched phase outside {COMPLETED, ERROR, ABORTED}
\* (HELD, SUSPENDED, ARCHIVED, UNKNOWN, an unrecognized string, no phase at
\* all) never makes the loop fail: after such a fetch the loop waits on, or
\* ends by the deadline.
C3_NonTerminalKeepsWaiting ==
    \A i \in StatusIdx :
      (i = Len(served) /\ OkDoc(served[i]) /\ served[i].phase \notin Terminal) =>
        /\ InWait =>
              \/ w_pc \in {"poll", "sleep"}
              \/ w_pc = "raised" /\ w_err.kind = "TimeoutError"
        /\ InCutout => c_pc \in {"poll", "sleep"}

\* C4 as stated: after a fetch that observed a terminal phase, the call
\* makes no further GET of the job document.
C4_NoJobFetchAfterTerminal ==
    \A i \in StatusIdx :
      (OkDoc(served[i]) /\ served[i].phase \in Terminal) =>
        \A j \in JobDocIdx : j <= i

\* C4 as amended: after a poll that observed a terminal phase there is no
\* further poll. The wait sends nothing more and returns that status;
\* async_cutout on ERROR or ABORTED sends nothing more and raises the job
\* failure of that phase, and on COMPLETED sends exactly one more GET of the
\* job document, the one of get_job_results, and never raises a job failure.
C4_NoPollAfterTerminal ==
    \A i \in StatusIdx :
      (OkDoc(served[i]) /\ served[i].phase \in Terminal) =>
        /\ \A j \in StatusIdx : j <= i
        /\ InWait =>
              /\ Len(served) = i
              /\ w_pc = "returned"
              /\ w_status.phase = served[i].phase
        /\ (InCutout /\ served[i].phase # "COMPLETED") =>
              /\ Len(served) = i
              /\ c_pc = "raised"
              /\ c_err = JobFailedErr(served[i].phase)
        /\ (InCutout /\ served[i].phase = "COMPLETED") =>
              /\ \A j \in JobDocIdx : j <= i + 1
              /\ c_pc \in {"results", "download", "done", "raised"}
              /\ c_pc = "results" => Len(served) = i
              /\ c_pc # "results" =>
                    Len(served) > i /\ served[i + 1].op = "results"
              /\ c_err.msg = <<>> \/ c_err.msg[1] # "Job failed with phase"

C4_Witness ==
    /\ c_pc = "done"
    /\ Len(written) = 1
    /\ \E i \in StatusIdx :
          i > 2 /\ OkPhase(served[i], "COMPLETED") /\ served[i + 1].op = "results"

\* C5: when a poll of async_cutout observes ERROR or ABORTED, the call raises
\* the job-failure error carrying that phase, and it has made no download
\* attempt: no call of download_result, no GET of a result, no file written.
C5_FailurePhaseRaisesWithoutDownload ==
    InCutout =>
      \A i \in StatusIdx :
        (OkDoc(served[i]) /\ served[i].phase \in {"ERROR", "ABORTED"}) =>
          /\ c_pc = "raised"
          /\ c_err.kind = "Exception"
          /\ c_err.msg[1] = "Job failed with phase"
          /\ served[i].phase \in Range(c_err.msg)
          /\ attempts = <<>>
          /\ written = <<>>
          /\ NGets("result") = 0

C5_Witness ==
    /\ c_pc = "raised"
    /\ c_err = JobFailedErr("ABORTED")
    /\ Cardinality(StatusIdx) = 2
    /\ attempts = <<>>

\* C6: the wait does not fail on ERROR or ABORTED: a fetch that observes one
\* of them makes it return that status, and whatever it returns has a phase
\* in {COMPLETED, ERROR, ABORTED}.
C6_WaitReturnsTerminalStatus ==
    InWait =>
      /\ \A i \in StatusIdx :
            (OkDoc(served[i]) /\ served[i].phase \in {"ERROR", "ABORTED"}) =>
              /\ w_pc = "returned"
              /\ w_err = NoErr
              /\ w_status.phase = served[i].phase
      /\ w_pc = "returned" => w_status.phase \in Terminal

C6_Witness ==
    /\ w_pc = "returned"
    /\ w_status.phase = "ABORTED"
    /\ Len(served) = 2

\* C7: on COMPLETED async_cutout attempts a download for exactly the results
\* with a non-empty href: never for a result whose href is empty or absent,
\* and, when it is done, once for each result whose href is non-empty.
C7_DownloadsExactlyNonEmptyHrefs ==
    /\ \A a \in Range(attempts) : a.href \notin {NoneVal, ""}
    /\ c_pc = "done" =>
          {a.pos : a \in Range(attempts)} =
          {i - 1 : i \in {j \in 1..Len(c_results) :
                            c_results[j].href \notin {NoneVal, ""}}}

\* C8: the file written for the result at position i of the result list is
\* cutout_<i>.fits in the output directory: the index in the name is the
\* result's position, and no two files of a run share a path.
C8_FilesNamedByPosition ==
    /\ \A k \in 1..Len(written) :
          /\ written[k].pos \in 0..(Len(c_results) - 1)
          /\ written[k].path.dir = OutputDir
          /\ written[k].path.name = <<"cutout_", written[k].pos, ".fits">>
          /\ \E a \in Range(attempts) :
                /\ a.pos = written[k].pos
                /\ a.href = c_results[written[k].pos + 1].href
    /\ \A k, m \in 1..Len(written) :
          k # m => /\ written[k].pos # written[m].pos
                   /\ written[k].path # written[m].path

C8_Witness ==
    /\ c_pc = "done"
    /\ Len(written) = 2
    /\ written[2].pos = 1

\* the final path segment of loc: what follows its last "/"
IsFinalSegment(id, loc) ==
    /\ \A i \in 1..Len(id) : id[i] # "/"
    /\ \E n \in 0..Len(loc) :
          /\ SubSeq(loc, n + 1, Len(loc)) = id
          /\ n = 0 \/ loc[n] = "/"

\* C9: create_job answered 303 with a Location header returns the final
\* path segment of the Location, and has sent the POST alone: the redirect
\* is not followed.
C9_CreateReturnsFinalSegment ==
    (InCreate /\ Len(served) = 1 /\ served[1].status = 303 /\ served[1].hasLoc) =>
      /\ cr_pc = "returned"
      /\ IsFinalSegment(cr_ret, served[1].loc)
      /\ Len(events) = 1
      /\ events[1].method = "POST" /\ events[1].kind = "jobs"

C9_Witness ==
    /\ cr_pc = "returned"
    /\ served[1].loc = <<"a", "/", "b">>
    /\ cr_ret = <<"b">>

\* C10: create_job answered with a status other than 303 raises an error
\* that carries the status code and the body, returns no job id, and has
\* sent exactly one POST.
C10_CreateFailureCarriesStatusAndBody ==
    (InCreate /\ Len(served) = 1 /\ served[1].status # 303) =>
      /\ cr_pc = "raised"
      /\ StatusStr(served[1].status) \in Range(cr_err.msg)
      /\ served[1].body \in Range(cr_err.msg)
      /\ cr_ret = <<>>
      /\ NPosts = 1
      /\ Len(events) = 1

\* C11: in a poll loop (wait_for_job_completion, async_cutout) a status
\* fetch answered with a status other than 200, or with a 200 whose document
\* is not well-formed, is the last thing the loop does: no fetch and no
\* sleep follows it, and the operation has ended with that fetch's error
\* (the request failure with the status and the body, or the parse error),
\* whatever was observed before.
C11_FailedFetchEndsWait ==
    \A i \in StatusIdx :
        (InWait \/ InCutout) /\ ~OkDoc(served[i]) =>
            /\ i = Len(served)
            /\ events[Len(events)].method = "GET"
            /\ events[Len(events)].kind = "job"
            /\ IF InWait THEN w_pc = "raised" ELSE c_pc = "raised"
            /\ (IF InWait THEN w_err ELSE c_err) =
                   (IF served[i].status # 200
                       THEN StatusErr(served[i]) ELSE ParseErr)

\* a loop that has slept at least once meets a failed fetch: once a request
\* failure in async_cutout, once a parse failure in the wait
C11_Witness ==
    /\ \E j \in 1..Len(events) : events[j].method = "SLEEP"
    /\ \/ InCutout /\ served[Len(served)].op = "status"
          /\ served[Len(served)].status = 404
       \/ InWait /\ served[Len(served)].op = "status"
          /\ served[Len(served)].xml = "malformed"

SameResult(e, x) ==
    /\ e.id = x.id
    /\ e.href = x.xlink_href
    /\ e.mime_type = x.mime_type_attr

\* C14: for a document with N result elements the parser of either client
\* gives exactly N entries, the i-th carrying the id, the xlink:href and the
\* mime-type of the i-th element as they are in the document (None for an
\* attribute that is absent); get_job_results returns that list, and the
\* empty list for a document without a results block.
C14_ParserKeepsResults ==
    /\ k_pc = "returned" /\ k_op = "get_job_results" =>
          /\ Len(k_results) = Len(k_doc.elems)
          /\ \A i \in 1..Len(k_results) :
                SameResult(k_results[i], k_doc.elems[i])
          /\ ~k_doc.present => k_results = <<>>
    /\ k_pc = "returned" /\ k_op = "get_job_status" /\ k_doc.present =>
          /\ k_status.has_results
          /\ Len(k_status.results) = Len(k_doc.elems)
          /\ \A i \in 1..Len(k_status.results) :
                SameResult(k_status.results[i], k_doc.elems[i])

\* get_job_results has returned the two entries of a document whose two
\* result elements differ in every attribute
C14_Witness ==
    /\ k_pc = "returned" /\ k_op = "get_job_results"
    /\ Len(k_results) = 2
    /\ k_results[1].id # k_results[2].id
    /\ k_results[1].href = NoneVal /\ k_results[2].href = "u1"
    /\ k_results[1].mime_type # k_results[2].mime_type

\* a step of a method of the context-manager client that runs with no open
\* session: the call of a method, or the first iteration of a wait
NoSessionStep ==
    /\ session # "open"
    /\ \/ k_pc = "idle" /\ k_pc' # "idle" /\ k_variant' = "ctx"
       \/ cr_pc = "idle" /\ cr_pc' # "idle" /\ cr_variant' = "ctx"
       \/ w_pc = "idle" /\ w_pc' # "idle"
       \/ w_pc = "poll" /\ w_pc' # "poll"

\* that step ends the call with a RuntimeError (a wait called after the exit
\* passes _check_session and raises at its first fetch)
RaisesRuntimeError ==
    \/ k_pc' = "raised" /\ k_err'.kind = "RuntimeError"
    \/ cr_pc' = "raised" /\ cr_err'.kind = "RuntimeError"
    \/ w_pc' = "raised" /\ w_err'.kind = "RuntimeError"
    \/ w_pc = "idle" /\ w_pc' = "poll" /\ session = "closed"

\* C15, as stated: create_job, get_job_status, get_job_results,
\* download_result and wait_for_job_completion of the context-manager client,
\* called on a client that was never entered or has been exited, raise
\* RuntimeError and issue no HTTP request.
C15_NoSessionRaisesRuntimeError ==
    [][NoSessionStep => RaisesRuntimeError /\ events' = events]_vars

\* what does hold of those calls: they issue no HTTP request and raise
\* RuntimeError, but for download_result after the exit, which creates the
\* parent directories of output_path before it uses the session and raises
\* the OSError of a makedirs that fails; on a client never entered nothing
\* is created.
NoSessionNoRequest ==
    [][NoSessionStep =>
          /\ events' = events
          /\ served' = served
          /\ \/ RaisesRuntimeError
             \/ /\ k_op' = "download_result" /\ session = "closed"
                /\ k_pc' = "raised" /\ k_err' = OsErr("makedirs")
          /\ session = "none" => k_dirs' = k_dirs /\ k_file' = k_before'
          /\ k_err'.kind = "RuntimeError" /\ k_op' = "download_result"
                /\ session = "closed" => k_dirs']_vars

\* C16: async_cutout always ends: it returns or raises, and when the server
\* never reports a terminal phase it is a deadline error that ends it.
C16_CutoutAlwaysEnds == <>(c_pc \in {"done", "raised"})

\* the GETs of the job document among the events
JobGets == {j \in 1..Len(events) :
              events[j].method = "GET" /\ events[j].kind = "job"}
\* the reply to the request events[j]: the requests are answered in order
ReplyTo(j) ==
    served[Cardinality({i \in 1..j : events[i].method # "SLEEP"})]
\* the status fetches of the poll loop (get_job_status) among the events
PollGets == {j \in JobGets : ReplyTo(j).op = "status"}
\* the interval of the poll loop that runs
PollInterval == IF InWait THEN w_interval ELSE CutoutPollInterval
\* exactly one sleep of the loop's interval lies between events j and k
OneSleepBetween(j, k) ==
    /\ k = j + 2
    /\ events[j + 1].method = "SLEEP"
    /\ events[j + 1].secs = PollInterval

\* C17, as stated: between two consecutive fetches of the job's status
\* document in one poll loop (wait_for_job_completion, async_cutout) lies
\* exactly one sleep, of the caller's poll_interval in the wait and of 5
\* seconds in async_cutout; no two fetches are back to back.
C17_OneSleepBetweenFetches ==
    InWait \/ InCutout =>
        \A j, k \in JobGets :
            j < k /\ ~(\E m \in JobGets : j < m /\ m < k) =>
                OneSleepBetween(j, k)

\* C17, amended: that holds of the loop's own status fetches, the calls of
\* get_job_status; the GET of get_job_results, which async_cutout makes
\* once the phase is COMPLETED, follows the last status fetch with no sleep
\* between.
C17_OneSleepBetweenPolls ==
    InWait \/ InCutout =>
        /\ \A j, k \in PollGets :
              j < k /\ ~(\E m \in PollGets : j < m /\ m < k) =>
                  OneSleepBetween(j, k)
        /\ \A j \in JobGets \ PollGets :
              /\ j - 1 \in PollGets
              /\ OkPhase(ReplyTo(j - 1), "COMPLETED")
              /\ \A k \in JobGets : k <= j

\* async_cutout has polled, slept, polled again and fetched the results
C17_Witness ==
    /\ InCutout
    /\ Cardinality(PollGets) = 2
    /\ JobGets # PollGets
    /\ \E j \in 1..Len(events) :
          events[j].method = "SLEEP" /\ events[j].secs = CutoutPollInterval

\* C18: when async_cutout has raised, its error is the error of the step
\* that failed first (the submission, a status fetch or its parsing, the
\* job's failure phase, the results fetch, a download) and that step is the
\* last thing it did: no poll and no request follows it, the results after
\* a failed download were never attempted, and the files of the downloads
\* before it are in place, complete.
C18_FirstErrorEndsCutout ==
    InCutout /\ c_pc = "raised" =>
        LET last == served[Len(served)]
        IN  /\ c_err # NoErr
            /\ events[Len(events)].method # "SLEEP"
            /\ attempts = <<>> =>
                  /\ written = <<>>
                  /\ last.op = "create" =>
                        Len(served) = 1 /\ c_err = CreateErrUws(last)
                  /\ last.op = "status" =>
                        c_err = (IF last.status # 200 THEN StatusErr(last)
                                 ELSE IF last.xml # "ok" THEN ParseErr
                                 ELSE JobFailedErr(last.phase))
                  /\ last.op = "results" =>
                        c_err = (IF last.status # 200 THEN ResultsErr(last)
                                 ELSE ParseErr)
            /\ attempts # <<>> =>
                  /\ Len(attempts) = c_i + 1
                  /\ Cardinality({j \in 1..Len(events) :
                                     events[j].kind = "result"}) <= c_i + 1
                  /\ c_err.kind \in {"OSError", "InvalidURL", "Exception"}
                  /\ c_err.kind = "Exception" <=>
                        last.op = "download" /\ last.status # 200
                  /\ c_err.kind = "Exception" =>
                        c_err.msg = <<"Failed to download result:", last.body>>
                  /\ \A p \in 0..(c_i - 1) :
                        /\ written[p + 1].pos = p
                        /\ written[p + 1].content = "complete"
                  /\ \A k \in 1..Len(written) :
                        written[k].pos = c_i => written[k].content = "partial"
                  /\ Len(written) <= c_i + 1

\* the second download was refused by the server after the first file was
\* written
C18_Witness ==
    /\ InCutout /\ c_pc = "raised"
    /\ c_i = 1 /\ Len(attempts) = 2
    /\ served[Len(served)].op = "download"
    /\ served[Len(served)].status = 404
    /\ Len(written) = 1 /\ written[1].content = "complete"

\* C19: every request of create_job, get_job_status, get_job_results and
\* download_result, of either client, carries Authorization: Bearer <token>;
\* the POST that submits a job carries Accept: application/xml and the
\* form-urlencoded Content-Type as well; the GET of a download carries no
\* Accept header.
C19_RequestHeaders ==
    \A j \in 1..Len(events) :
        events[j].method # "SLEEP" =>
            /\ <<"Authorization", <<"Bearer", Token>>>> \in events[j].headers
            /\ events[j].method = "POST" =>
                  /\ <<"Accept", <<"application/xml">>>> \in events[j].headers
                  /\ <<"Content-Type", <<"application/x-www-form-urlencoded">>>>
                        \in events[j].headers
            /\ events[j].kind = "result" =>
                  ~(\E h \in events[j].headers : h[1] = "Accept")

\* C20: get_job_status, of either client, fails in two ways that a caller
\* can tell apart: a reply whose status is not 200 raises the request
\* failure, an Exception whose message carries the status and the body; a
\* 200 whose body is not well-formed XML raises the parser's ParseError;
\* neither reply gives the other error, and a well-formed 200 gives none.
C20_StatusErrorKinds ==
    k_op = "get_job_status" /\ served # <<>> =>
        LET r == served[Len(served)]
        IN  /\ r.status # 200 =>
                  /\ k_pc = "raised"
                  /\ k_err.kind = "Exception"
                  /\ k_err.msg = <<"Failed to get job status:",
                                   StatusStr(r.status), r.body>>
            /\ r.status = 200 /\ r.xml # "ok" =>
                  k_pc = "raised" /\ k_err.kind = "ParseError"
            /\ OkDoc(r) => k_pc = "returned" /\ k_err = NoErr
            /\ k_err.kind = "ParseError" => r.status = 200
            /\ k_err.kind = "Exception" => r.status # 200

\* get_job_status of the per-operation client was answered with a 200
\* whose document is malformed
C20_Witness ==
    /\ k_op = "get_job_status" /\ k_variant = "uws"
    /\ served # <<>> /\ served[Len(served)].xml = "malformed"
    /\ k_pc = "raised"

\* C21: download_result, of either client, raises the download failure (an
\* Exception "Failed to download result") exactly for a reply whose status
\* is not 200, and the OSError of the file system when the directories
\* cannot be created or the file cannot be opened or written; the two are
\* never crossed, and the call returns only after a 200 whose body is in the
\* file, complete.
C21_DownloadErrorKinds ==
    k_op = "download_result" /\ k_pc # "idle" =>
        LET replied == served # <<>>
            r == served[Len(served)]
        IN  /\ replied /\ r.status # 200 =>
                  /\ k_pc = "raised"
                  /\ k_err.kind = "Exception"
                  /\ k_err.msg[1] = "Failed to download result:"
                  /\ k_err.msg[Len(k_err.msg)] = r.body
            /\ k_err.kind = "Exception" => replied /\ r.status # 200
            /\ k_err.kind = "OSError" => ~replied \/ r.status = 200
            /\ k_file = "partial" => k_pc = "raised" /\ k_err.kind = "OSError"
            /\ k_pc = "raised" => k_err # NoErr
            /\ k_pc = "returned" =>
                  replied /\ r.status = 200 /\ k_file = "complete" /\ k_dirs

\* a download of the per-operation client was answered with 200 and the
\* write of the file failed
C21_Witness ==
    /\ k_op = "download_result" /\ k_variant = "uws"
    /\ served # <<>> /\ served[Len(served)].status = 200
    /\ k_pc = "raised" /\ k_err.kind = "OSError" /\ k_file = "partial"

\* C22: a wait on an entered client never ends before its first status
\* fetch, whatever its timeout; the terminal check comes before the deadline
\* check: a fetch that sees a terminal phase ends the wait by a return, also
\* when the time elapsed at that fetch exceeds the timeout, and the deadline
\* error is raised only right after a fetch that saw a non-terminal phase,
\* with the elapsed time above the timeout.
C22_FetchBeforeEndTerminalFirst ==
    InWait /\ w_pc \in {"returned", "raised"} /\ w_err.kind # "RuntimeError" =>
        /\ served # <<>>
        /\ events[Len(events)].method = "GET"
        /\ LET r == served[Len(served)]
           IN  /\ OkDoc(r) /\ r.phase \in Terminal =>
                     w_pc = "returned" /\ w_status.phase = r.phase
               /\ w_pc = "returned" => OkDoc(r) /\ r.phase \in Terminal
               /\ w_err.kind = "TimeoutError" =>
                     /\ OkDoc(r)
                     /\ r.phase \in EnumPhases \ Terminal
                     /\ now - w_start > w_timeout

\* the first fetch of a wait with timeout 0 took time and saw COMPLETED: the
\* wait has returned with its deadline already behind it
C22_Witness ==
    /\ InWait /\ w_pc = "returned" /\ w_timeout = 0
    /\ Len(served) = 1 /\ served[1].phase = "COMPLETED"
    /\ now - w_start > w_timeout

\* the last reply to a GET of the job document
LastJobDoc == CHOOSE i \in JobDocIdx : \A m \in JobDocIdx : m <= i

\* C23, as stated: every download async_cutout attempts is for a result of
\* the status document in which it saw COMPLETED: no job document is fetched
\* between that one and the downloads.
C23_DownloadsFromCompletedSnapshot ==
    InCutout /\ attempts # <<>> =>
        /\ served[LastJobDoc].op = "status"
        /\ OkPhase(served[LastJobDoc], "COMPLETED")

\* C23, amended: every download async_cutout attempts is for a result of
\* the document get_job_results fetched right after the status fetch that
\* saw COMPLETED, in the order of that document and from its first result
\* on; no job document is fetched after that one, and its phase, whatever it
\* is, is not examined.
C23_DownloadsFromResultsFetch ==
    InCutout /\ (attempts # <<>> \/ c_pc \in {"download", "done"}) =>
        LET i == LastJobDoc
        IN  /\ served[i].op = "results" /\ OkDoc(served[i])
            /\ served[i - 1].op = "status"
            /\ OkPhase(served[i - 1], "COMPLETED")
            /\ \A m \in (i + 1)..Len(served) : served[m].op = "download"
            /\ Len(attempts) <= Len(c_doc.elems)
            /\ \A n \in 1..Len(attempts) :
                  /\ attempts[n].pos = n - 1
                  /\ attempts[n].href = c_doc.elems[n].xlink_href
            /\ c_pc = "done" => Len(attempts) = Len(c_doc.elems)

\* the document get_job_results was answered with has the phase ERROR, and
\* its two results have been downloaded
C23_Witness ==
    /\ InCutout /\ c_pc = "done"
    /\ served[LastJobDoc].phase = "ERROR"
    /\ Len(attempts) = 2
    /\ Len(written) = 2

\* the POST was answered 303 with no Location header, an empty one, or one
\* that ends in "/"
NoFinalSegment(r) ==
    /\ r.op = "create" /\ r.status = 303
    /\ \/ ~r.hasLoc
       \/ r.loc = <<>>
       \/ r.loc[Len(r.loc)] = "/"

\* C24: create_job answered 303 never raises, in either client and in
\* async_cutout's submission; with the Location header missing, empty or
\* ending in "/" the job id it returns is the empty string, and every later
\* fetch of that job's status is a GET of the jobs URL followed by "/" and the
\* empty id.
C24_EmptyJobIdOn303 ==
    /\ InCreate /\ served # <<>> /\ served[1].status = 303 =>
          /\ cr_pc = "returned" /\ cr_err = NoErr
          /\ NoFinalSegment(served[1]) => cr_ret = <<>>
    /\ InCutout /\ served[1].status = 303 =>
          /\ Len(served) = 1 => c_pc = "poll" /\ c_err = NoErr
          /\ NoFinalSegment(served[1]) =>
                /\ c_job = <<>>
                /\ \A j \in JobGets : events[j].arg = <<>>

\* async_cutout's submission was answered 303 with the Location "/", and the
\* status of the job with the empty id has been fetched
C24_Witness ==
    /\ InCutout
    /\ served[1].status = 303 /\ served[1].hasLoc /\ served[1].loc = <<"/">>
    /\ c_job = <<>>
    /\ JobGets # {}

\* C25: download_result, of either client, answered with a status other
\* than 200 leaves the file at output_path as it was before the call (absent
\* if it was absent, its old content if it existed), and the parent
\* directories of output_path, created before the request was sent, exist.
C25_RefusedDownloadKeepsFile ==
    /\ k_op = "download_result" /\ served # <<>>
       /\ served[Len(served)].status # 200 =>
          /\ k_pc = "raised"
          /\ k_file = k_before
          /\ k_dirs
    /\ k_op = "download_result" /\ events # <<>> => k_dirs

\* a download onto an existing file was answered 404
C25_Witness ==
    /\ k_op = "download_result" /\ k_before = "old"
    /\ served # <<>> /\ served[Len(served)].status = 404
    /\ k_file = "old" /\ k_dirs

============================================================================
